---- MODULE Spec2Model ----
(***************************************************************************)
(* Model of create_structure.py: the module-level loop that, for each      *)
(* entry of `paths`, calls os.makedirs(os.path.dirname(path),              *)
(* exist_ok=True), opens the path in append mode and closes it, and prints *)
(* "Created: <path>".                                                      *)
(*                                                                         *)
(* A path is the sequence of its segments ("a/b/c.txt" is                  *)
(* <<"a","b","c.txt">>); the working directory is the empty sequence.  The *)
(* filesystem maps every node to an entry: absent, a directory, or a       *)
(* regular file with its bytes.  Permissions and disk space are not        *)
(* modelled: the only filesystem errors are the ones the tree itself       *)
(* produces (missing component, non-directory component, existing entry).  *)
(***************************************************************************)
EXTENDS Naturals, Sequences, FiniteSets, TLC

VARIABLES paths, fs, pc, i, out, err, run, fs0, created, fsEnd, pcEnd

vars == <<paths, fs, pc, i, out, err, run, fs0, created, fsEnd, pcEnd>>

(* ------------------------------ bounds --------------------------------- *)

\* longest path list drawn as input
MaxPaths == 3

\* number of successive invocations of the script
MaxRuns == 2

\* the nodes of the working directory the model tracks (closed under parent)
Nodes ==
  { <<"a">>, <<"a", "b">>, <<"a", "b", "c.txt">>, <<"a", "d.txt">>, <<"e.txt">> }

\* file contents that can pre-exist: no bytes, or one byte
Contents == { <<>>, <<1>> }

(* --------------------------- filesystem -------------------------------- *)

Absent == [kind |-> "absent", content |-> <<>>]

Dir == [kind |-> "dir", content |-> <<>>]

File(c) == [kind |-> "file", content |-> c]

Entries == {Absent, Dir} \cup {File(c) : c \in Contents}

Front(p) == SubSeq(p, 1, Len(p) - 1)

Prefix(p, k) == SubSeq(p, 1, k)

\* the proper ancestors of p below the working directory
Ancestors(p) == {Prefix(p, k) : k \in 1..(Len(p) - 1)}

\* a tree the operating system can hold: whatever exists lies in directories
WellFormed(f) ==
  \A n \in Nodes :
    f[n].kind # "absent" => \A a \in Ancestors(n) : f[a].kind = "dir"

FileSystems == {f \in [Nodes -> Entries] : WellFormed(f)}

PathLists == UNION {[1..n -> Nodes] : n \in 0..MaxPaths}

\* the kernel's walk over the components before the last one: the first that
\* is not a directory decides the error
WalkError(f, p) ==
  IF \A a \in Ancestors(p) : f[a].kind = "dir" THEN "none"
  ELSE LET k == CHOOSE k \in 1..(Len(p) - 1) :
                  /\ f[Prefix(p, k)].kind # "dir"
                  /\ \A j \in 1..(k - 1) : f[Prefix(p, j)].kind = "dir"
       IN IF f[Prefix(p, k)].kind = "file" THEN "NotADirectoryError"
          ELSE "FileNotFoundError"

\* os.path.exists / os.path.isdir (stat fails on a broken walk)
exists(f, p) == p # <<>> /\ WalkError(f, p) = "none" /\ f[p].kind # "absent"

isdir(f, p) == p # <<>> /\ WalkError(f, p) = "none" /\ f[p].kind = "dir"

\* mkdir that puts the directory in place of a regular file found at p
mkdirReplace(f, p) ==
  IF p = <<>> THEN [fs |-> f, err |-> "FileNotFoundError"]
  ELSE IF WalkError(f, p) # "none" THEN [fs |-> f, err |-> WalkError(f, p)]
  ELSE IF f[p].kind = "dir" THEN [fs |-> f, err |-> "FileExistsError"]
  ELSE [fs |-> [f EXCEPT ![p] = Dir], err |-> "none"]

\* os.mkdir(p)
mkdir(f, p) ==
  IF p = <<>> THEN [fs |-> f, err |-> "FileNotFoundError"]
  ELSE IF WalkError(f, p) # "none" THEN [fs |-> f, err |-> WalkError(f, p)]
  ELSE IF f[p].kind # "absent" THEN [fs |-> f, err |-> "FileExistsError"]
  ELSE [fs |-> [f EXCEPT ![p] = Dir], err |-> "none"]

\* os.path.dirname(path)
dirname(p) == Front(p)

\* os.makedirs(name) with exist_ok left at its default False: the OSError of
\* the last mkdir is always raised
RECURSIVE makedirsStrict(_, _)
makedirsStrict(f, name) ==
  LET head == IF name = <<>> THEN <<>> ELSE Front(name)
      r1 == IF head # <<>> /\ ~exists(f, head)
              THEN makedirsStrict(f, head)
              ELSE [fs |-> f, err |-> "none"]
  IN IF r1.err \notin {"none", "FileExistsError"} THEN r1
     ELSE LET r2 == mkdir(r1.fs, name)
          IN IF r2.err = "none" THEN r2
             ELSE [fs |-> r1.fs, err |-> r2.err]

\* os.makedirs(name, exist_ok=True): make the missing parents first (a
\* FileExistsError from that is swallowed), then mkdir(name); an OSError of
\* mkdir is swallowed when name is a directory
RECURSIVE makedirs(_, _)
makedirs(f, name) ==
  LET head == IF name = <<>> THEN <<>> ELSE Front(name)
      r1 == IF head # <<>> /\ ~exists(f, head)
              THEN makedirs(f, head)
              ELSE [fs |-> f, err |-> "none"]
  IN IF r1.err \notin {"none", "FileExistsError"} THEN r1
     ELSE LET r2 == mkdir(r1.fs, name)
          IN IF r2.err = "none" THEN r2
             ELSE IF isdir(r1.fs, name) THEN [fs |-> r1.fs, err |-> "none"]
             ELSE [fs |-> r1.fs, err |-> r2.err]

\* open(path, 'w'): an existing file is truncated
OpenTruncate(f, p) ==
  IF WalkError(f, p) # "none" THEN [fs |-> f, err |-> WalkError(f, p)]
  ELSE IF f[p].kind = "dir" THEN [fs |-> f, err |-> "IsADirectoryError"]
  ELSE [fs |-> [f EXCEPT ![p] = File(<<>>)], err |-> "none"]

\* open(path, 'a') followed by a write of one byte
OpenAppendWrite(f, p) ==
  IF WalkError(f, p) # "none" THEN [fs |-> f, err |-> WalkError(f, p)]
  ELSE IF f[p].kind = "dir" THEN [fs |-> f, err |-> "IsADirectoryError"]
  ELSE IF f[p].kind = "file"
    THEN [fs |-> [f EXCEPT ![p] = File(Append(f[p].content, 1))], err |-> "none"]
  ELSE [fs |-> [f EXCEPT ![p] = File(<<1>>)], err |-> "none"]

\* with open(path, 'a'): pass   -- O_APPEND|O_CREAT, nothing written, closed
OpenAppend(f, p) ==
  IF WalkError(f, p) # "none" THEN [fs |-> f, err |-> WalkError(f, p)]
  ELSE IF f[p].kind = "dir" THEN [fs |-> f, err |-> "IsADirectoryError"]
  ELSE IF f[p].kind = "file" THEN [fs |-> f, err |-> "none"]
  ELSE [fs |-> [f EXCEPT ![p] = File(<<>>)], err |-> "none"]

\* the path as the string the list holds: segments joined by "/"
RECURSIVE PathStr(_)
PathStr(p) ==
  IF Len(p) = 1 THEN p[1] ELSE PathStr(Front(p)) \o "/" \o p[Len(p)]

\* f"Created: {path}"
Line(p) == "Created: " \o PathStr(p)

\* nodes that exist in g and did not in f
NewNodes(f, g) == {n \in Nodes : f[n].kind = "absent" /\ g[n].kind # "absent"}

(* ----------------------------- the run --------------------------------- *)

StartPc(ps) == IF ps = <<>> THEN "done" ELSE "makedirs"

Init ==
  /\ paths \in PathLists
  /\ fs \in FileSystems
  /\ fs0 = fs
  /\ pc = StartPc(paths)
  /\ i = 1
  /\ out = <<>>
  /\ err = "none"
  /\ run = 1
  /\ created = {}
  /\ fsEnd = fs
  /\ pcEnd = "none"

\* the open of lines 46-47 left out: the line is printed right after makedirs
MakeDirsOkSkipOpen ==
  /\ pc = "makedirs"
  /\ LET r == makedirs(fs, dirname(paths[i]))
     IN /\ r.err = "none"
        /\ fs' = r.fs
        /\ created' = created \cup NewNodes(fs, r.fs)
  /\ pc' = "print"
  /\ UNCHANGED <<paths, i, out, err, run, fs0, fsEnd, pcEnd>>

\* line 45, no exception
MakeDirsOk ==
  /\ pc = "makedirs"
  /\ LET r == makedirs(fs, dirname(paths[i]))
     IN /\ r.err = "none"
        /\ fs' = r.fs
        /\ created' = created \cup NewNodes(fs, r.fs)
  /\ pc' = "open"
  /\ UNCHANGED <<paths, i, out, err, run, fs0, fsEnd, pcEnd>>

\* the error of line 45 caught and the loop continued with the next path
MakeDirsFailContinue ==
  /\ pc = "makedirs"
  /\ LET r == makedirs(fs, dirname(paths[i]))
     IN /\ r.err # "none"
        /\ fs' = r.fs
        /\ created' = created \cup NewNodes(fs, r.fs)
  /\ i' = i + 1
  /\ pc' = IF i = Len(paths) THEN "done" ELSE "makedirs"
  /\ UNCHANGED <<paths, out, err, run, fs0, fsEnd, pcEnd>>

\* line 45 raises: the exception leaves the loop and ends the script
MakeDirsFail ==
  /\ pc = "makedirs"
  /\ LET r == makedirs(fs, dirname(paths[i]))
     IN /\ r.err # "none"
        /\ fs' = r.fs
        /\ created' = created \cup NewNodes(fs, r.fs)
        /\ err' = r.err
  /\ pc' = "failed"
  /\ UNCHANGED <<paths, i, out, run, fs0, fsEnd, pcEnd>>

\* lines 46-47, no exception
OpenOk ==
  /\ pc = "open"
  /\ LET r == OpenAppend(fs, paths[i])
     IN /\ r.err = "none"
        /\ fs' = r.fs
        /\ created' = created \cup NewNodes(fs, r.fs)
  /\ pc' = "print"
  /\ UNCHANGED <<paths, i, out, err, run, fs0, fsEnd, pcEnd>>

\* the error of line 46 handled by removing what the run created
OpenFailRollback ==
  /\ pc = "open"
  /\ LET r == OpenAppend(fs, paths[i])
     IN /\ r.err # "none"
        /\ fs' = [n \in Nodes |-> IF n \in created THEN Absent ELSE r.fs[n]]
        /\ err' = r.err
  /\ pc' = "failed"
  /\ UNCHANGED <<paths, i, out, run, fs0, created, fsEnd, pcEnd>>

\* line 46 raises
OpenFail ==
  /\ pc = "open"
  /\ LET r == OpenAppend(fs, paths[i])
     IN /\ r.err # "none"
        /\ fs' = r.fs
        /\ created' = created \cup NewNodes(fs, r.fs)
        /\ err' = r.err
  /\ pc' = "failed"
  /\ UNCHANGED <<paths, i, out, run, fs0, fsEnd, pcEnd>>

\* the loop left after the first line is printed
EmitLineStop ==
  /\ pc = "print"
  /\ out' = Append(out, Line(paths[i]))
  /\ i' = i + 1
  /\ pc' = "done"
  /\ UNCHANGED <<paths, fs, err, run, fs0, created, fsEnd, pcEnd>>

\* the line printed only when the run created the file
EmitLineIfNew ==
  /\ pc = "print"
  /\ out' = IF paths[i] \in created THEN Append(out, Line(paths[i])) ELSE out
  /\ i' = i + 1
  /\ pc' = IF i = Len(paths) THEN "done" ELSE "makedirs"
  /\ UNCHANGED <<paths, fs, err, run, fs0, created, fsEnd, pcEnd>>

\* line 48, then the loop head (line 44) takes the next path or ends
EmitLine ==
  /\ pc = "print"
  /\ out' = Append(out, Line(paths[i]))
  /\ i' = i + 1
  /\ pc' = IF i = Len(paths) THEN "done" ELSE "makedirs"
  /\ UNCHANGED <<paths, fs, err, run, fs0, created, fsEnd, pcEnd>>

\* the script is invoked again on the tree the previous invocation left
Rerun ==
  /\ pc \in {"done", "failed"}
  /\ run < MaxRuns
  /\ run' = run + 1
  /\ fsEnd' = fs
  /\ pcEnd' = pc
  /\ pc' = StartPc(paths)
  /\ i' = 1
  /\ out' = <<>>
  /\ err' = "none"
  /\ UNCHANGED <<paths, fs, fs0, created>>

Next == MakeDirsOk \/ MakeDirsFail \/ OpenOk \/ OpenFail \/ EmitLine

Spec == Init /\ [][Next]_vars

\* the lists whose every entry has a directory part, as every entry of the
\* script's own list has ("src/...")
InitNested ==
  /\ Init
  /\ \A j \in 1..Len(paths) : Len(paths[j]) >= 2

SpecNested == InitNested /\ [][Next]_vars

NextTwice == Next \/ Rerun

SpecTwice == Init /\ [][NextTwice]_vars

\* the whole loop as a function of the initial tree and the list: the tree
\* it leaves, the error that ended it ("none" when it ran through), its output
RECURSIVE RunLoop(_, _)
RunLoop(f, ps) ==
  IF ps = <<>> THEN [fs |-> f, err |-> "none", out |-> <<>>]
  ELSE LET m == makedirs(f, dirname(Head(ps)))
       IN IF m.err # "none" THEN [fs |-> m.fs, err |-> m.err, out |-> <<>>]
          ELSE LET o == OpenAppend(m.fs, Head(ps))
               IN IF o.err # "none"
                    THEN [fs |-> o.fs, err |-> o.err, out |-> <<>>]
                    ELSE LET rest == RunLoop(o.fs, Tail(ps))
                         IN [fs |-> rest.fs, err |-> rest.err,
                             out |-> <<Line(Head(ps))>> \o rest.out]

(* --------------------------- sanity ------------------------------------ *)

TypeOK ==
  /\ paths \in PathLists
  /\ fs \in FileSystems
  /\ pc \in {"makedirs", "open", "print", "done", "failed"}
  /\ i \in 1..(Len(paths) + 1)
  /\ run \in 1..MaxRuns
  /\ created \subseteq Nodes

\* the loop function and the step-by-step run agree on a finished run
LoopAgrees ==
  (run = 1 /\ pc \in {"done", "failed"}) =>
    /\ RunLoop(fs0, paths).fs = fs
    /\ RunLoop(fs0, paths).err = err
    /\ RunLoop(fs0, paths).out = out

(* ----------------------------- claims ---------------------------------- *)

\* a regular file is at p and every ancestor of p is a directory
Materialized(f, p) ==
  /\ f[p].kind = "file"
  /\ \A a \in Ancestors(p) : f[a].kind = "dir"

\* n is a listed path or an ancestor directory of one
Listed(n) ==
  \E j \in 1..Len(paths) : n = paths[j] \/ n \in Ancestors(paths[j])

Reorderings(ps) ==
  LET n == Len(ps)
      bij == {s \in [1..n -> 1..n] : \A a, b \in 1..n : s[a] = s[b] => a = b}
  IN {[j \in 1..n |-> ps[s[j]]] : s \in bij}

\* C1 -- Completeness: when the loop has run through without a filesystem
\* error, every listed path is a regular file and all its ancestors are
\* directories.
C1_Completeness ==
  pc = "done" => \A j \in 1..Len(paths) : Materialized(fs, paths[j])

\* a run through a list of at least two paths, one of them three segments
\* deep, that had to create something
C1_Witness ==
  /\ pc = "done"
  /\ Len(paths) >= 2
  /\ created # {}
  /\ \E j \in 1..Len(paths) : Len(paths[j]) = 3

\* C2 -- Content preservation: a file that existed before the run keeps its
\* bytes (also non-empty ones) through every step, and a file the run made is
\* empty; nothing is ever written or truncated.
C2_ContentPreserved ==
  \A n \in Nodes :
    /\ fs0[n].kind = "file" => fs[n] = fs0[n]
    /\ (fs0[n].kind # "file" /\ fs[n].kind = "file") => fs[n].content = <<>>

\* the run has touched a file that held a byte and has made a new file
C2_Witness ==
  /\ \E j \in 1..(i - 1) : fs0[paths[j]] = File(<<1>>)
  /\ \E j \in 1..(i - 1) : fs0[paths[j]].kind = "absent" /\ paths[j] \in created

\* C3 -- Idempotence: a second (and any later) invocation creates and changes
\* nothing, ends the way the one before it ended, and the files the first
\* invocation created are still empty.
C3_Idempotent ==
  /\ run >= 2 => fs = fsEnd
  /\ (run >= 2 /\ pc \in {"done", "failed"}) => pc = pcEnd
  /\ \A n \in created : fs[n].kind = "file" => fs[n].content = <<>>

\* a second invocation has run through after the first created a file
C3_Witness ==
  /\ run = 2
  /\ pc = "done"
  /\ \E j \in 1..Len(paths) : paths[j] \in created

\* C4 as stated -- for any list and any permutation of it, the run from the
\* same initial tree leaves the same final tree.  (Checked under SpecNested,
\* where every entry has a directory part, so that no run ends on the
\* FileNotFoundError of an empty dirname.)
C4_OrderIndependent_Original ==
  pc \in {"done", "failed"} =>
    \A q \in Reorderings(paths) : RunLoop(fs0, q).fs = fs

\* C4 amended -- when the run over the list finishes without error, the run
\* over any permutation of the list from the same initial tree also finishes
\* without error and leaves the same final tree; its output is the lines
\* in the permuted order.
C4_OrderIndependent ==
  pc = "done" =>
    \A q \in Reorderings(paths) :
      /\ RunLoop(fs0, q).err = "none"
      /\ RunLoop(fs0, q).fs = fs
      /\ RunLoop(fs0, q).out = [j \in 1..Len(q) |-> Line(q[j])]

\* a finished run over two different paths that share a parent the run made
C4_Witness ==
  /\ pc = "done"
  /\ \E j, k \in 1..Len(paths) :
       /\ paths[j] # paths[k]
       /\ Ancestors(paths[j]) \cap Ancestors(paths[k]) \cap created # {}

\* some parent segment of p is a regular file
ParentIsFile(f, p) == \E a \in Ancestors(p) : f[a].kind = "file"

\* C5 -- Fail-fast on collision: reaching a path one of whose parent segments
\* is a regular file, the run fails there with the tree and the output as
\* they were; a failed run takes no further step, so nothing is created or
\* printed for that path or a later one.
C5_FailFast ==
  /\ [][(pc = "makedirs" /\ ParentIsFile(fs, paths[i])) =>
          /\ pc' = "failed"
          /\ err' \in {"FileExistsError", "NotADirectoryError"}
          /\ i' = i /\ fs' = fs /\ out' = out]_vars
  /\ [][pc # "failed"]_vars
  /\ [](pc = "failed" => Len(out) = i - 1)

\* the run failed on a collision with a later path still to come, which is
\* not there
C5_Witness ==
  /\ pc = "failed"
  /\ ParentIsFile(fs, paths[i])
  /\ i < Len(paths)
  /\ fs[paths[i + 1]].kind = "absent"

\* C6 -- No rollback: when the run fails at the k-th path, the failing step
\* itself removes nothing, everything the run created is still there, the
\* k-1 paths before it are materialized, and the output is exactly their
\* k-1 lines.
C6_NoRollback ==
  /\ [][pc' = "failed" => (fs' = fs /\ out' = out)]_vars
  /\ [](pc = "failed" =>
          /\ \A n \in created : fs[n].kind # "absent"
          /\ \A j \in 1..(i - 1) : Materialized(fs, paths[j])
          /\ out = [j \in 1..(i - 1) |-> Line(paths[j])])

\* the run failed after it had processed a path and created something
C6_Witness ==
  /\ pc = "failed"
  /\ i >= 2
  /\ created # {}

\* C7 -- Output sequence: at every point the output is the lines
\* "Created: <P>" of the paths processed so far, in list order, whether or
\* not the file was there before; a finished run has one line per entry;
\* for ["a/b/c.txt", "a/d.txt"] it is the two lines of the example.
C7_OutputSequence ==
  /\ Len(out) = i - 1
  /\ \A j \in 1..(i - 1) : out[j] = Line(paths[j])
  /\ pc = "done" => Len(out) = Len(paths)
  /\ (pc = "done" /\ paths = << <<"a", "b", "c.txt">>, <<"a", "d.txt">> >>) =>
       out = <<"Created: a/b/c.txt", "Created: a/d.txt">>

\* a finished run that printed a line for a file that was already there and
\* one for a file it made
C7_Witness ==
  /\ pc = "done"
  /\ \E j \in 1..Len(out) : fs0[paths[j]].kind = "file"
  /\ \E j \in 1..Len(out) : paths[j] \in created

C9_MaterializeBeforeConfirm ==
  /\ \A j \in 1..Len(paths) :
       (\E k \in 1..Len(out) : out[k] = Line(paths[j])) =>
         Materialized(fs, paths[j])
  /\ pc = "print" => Materialized(fs, paths[i])

\* a line is out for a path the run made, and the next path is not yet there
C9_Witness ==
  /\ Len(out) >= 1
  /\ paths[1] \in created
  /\ pc = "makedirs"
  /\ fs[paths[i]].kind = "absent"

\* C10 -- Monotonic extension: no step removes a node or changes its kind,
\* and a step changes only listed paths and their ancestor directories.
C10_Monotonic ==
  [][\A n \in Nodes :
       /\ fs[n].kind # "absent" => fs'[n].kind = fs[n].kind
       /\ fs'[n] # fs[n] => Listed(n)]_vars

\* the run created nodes in a tree that holds a file outside the list
C10_Witness ==
  /\ pc \in {"done", "failed"}
  /\ created # {}
  /\ \E n \in Nodes : fs0[n].kind = "file" /\ ~Listed(n)
====
